---- MODULE Spec2Model ----
(***************************************************************************)
(* A model of scripts/analyze_extensions.py: one run of the script, from   *)
(* the existence check of the input path to the process exit.              *)
(*                                                                         *)
(* Python strings are sequences of one-character strings; a JSON value is  *)
(* a record tagged with its type (t) so that isinstance(), len() and the   *)
(* comparisons of list.sort can fail where Python fails.  The two text     *)
(* documents are kept as structures (rows, counts, lists) in the order the *)
(* script appends them; the wall-clock line of the listing header and the  *)
(* progress lines printed to standard output are not modelled, and         *)
(* standard output is taken to be writable.                                *)
(***************************************************************************)
EXTENDS Integers, Sequences, FiniteSets, TLC

VARIABLES
    pc,             \* the statement the run is at
    exists,         \* os.path.exists(extensions_json_path)
    content,        \* what the input file holds
    handles,        \* the files currently open
    opened,         \* every file opened so far, in order
    data,           \* json.load's result
    extensions,     \* the record list
    output,         \* the listing document
    analysis,       \* the analysis document
    listing_file,   \* the file at output_path
    analysis_file,  \* the file at analysis_path
    error_file,     \* the file at extension-error.txt
    raised,         \* the exception the handler caught, or NoError
    error_msg,      \* the handler's message
    error_writes,   \* how often the handler tried to write the error file
    exit_code,      \* <<the process's exit code>>, empty while it runs
    io_faults       \* whether open() and write() may fail in this run

vars == <<pc, exists, content, handles, opened, data, extensions, output,
          analysis, listing_file, analysis_file, error_file, raised,
          error_msg, error_writes, exit_code, io_faults>>

----------------------------------------------------------------------------
(* Bounds of the model. *)

\* the most entries an input mapping holds
MaxEntries == 3

\* the longest run of filler characters in a generated id or name
MaxPad == 52

----------------------------------------------------------------------------
(* Strings. *)

UpperLetters == <<"A","B","C","D","E","F","G","H","I","J","K","L","M",
                  "N","O","P","Q","R","S","T","U","V","W","X","Y","Z">>

LowerLetters == <<"a","b","c","d","e","f","g","h","i","j","k","l","m",
                  "n","o","p","q","r","s","t","u","v","w","x","y","z">>

Digits == <<"0","1","2","3","4","5","6","7","8","9">>

IndexIn(seq, c) == CHOOSE i \in 1..Len(seq) : seq[i] = c

IsIn(seq, c) == \E i \in 1..Len(seq) : seq[i] = c

\* the code point of a character: what Python's str comparison orders by
Ord(c) ==
    CASE c = " " -> 32
      [] c = "-" -> 45
      [] c = "." -> 46
      [] c = "/" -> 47
      [] IsIn(Digits, c) -> 47 + IndexIn(Digits, c)
      [] IsIn(UpperLetters, c) -> 64 + IndexIn(UpperLetters, c)
      [] IsIn(LowerLetters, c) -> 96 + IndexIn(LowerLetters, c)

\* str.lower() on one character
LowerChar(c) ==
    IF IsIn(UpperLetters, c) THEN LowerLetters[IndexIn(UpperLetters, c)] ELSE c

\* str.lower()
Lower(s) == [i \in 1..Len(s) |-> LowerChar(s[i])]

\* str.replace(" ", "")
RECURSIVE StripSpaces(_)
StripSpaces(s) ==
    IF s = <<>> THEN <<>>
    ELSE IF Head(s) = " " THEN StripSpaces(Tail(s))
    ELSE <<Head(s)>> \o StripSpaces(Tail(s))

\* t in s
Contains(s, t) ==
    \E i \in 0..(Len(s) - Len(t)) : SubSeq(s, i + 1, i + Len(t)) = t

\* s < t for two str values: the first differing code point decides, and a
\* proper prefix is the smaller
RECURSIVE StrLess(_, _)
StrLess(s, t) ==
    IF t = <<>> THEN FALSE
    ELSE IF s = <<>> THEN TRUE
    ELSE IF Head(s) = Head(t) THEN StrLess(Tail(s), Tail(t))
    ELSE Ord(Head(s)) < Ord(Head(t))

\* c * n
RECURSIVE Rep(_, _)
Rep(c, n) == IF n = 0 THEN <<>> ELSE <<c>> \o Rep(c, n - 1)

Ellipsis == <<".", ".", ".">>

EndsWith(s, t) ==
    Len(s) >= Len(t) /\ SubSeq(s, Len(s) - Len(t) + 1, Len(s)) = t

----------------------------------------------------------------------------
(* JSON values and the record list. *)

JStr(s) == [t |-> "str", v |-> s]
JNum(n) == [t |-> "num", v |-> n]
JBool(b) == [t |-> "bool", v |-> b]

\* a key a JSON object does not hold
Absent == [t |-> "absent", v |-> 0]

\* a JSON object with (some of) the four metadata fields
JDict(name, publisher, version, enabled) ==
    [t |-> "dict",
     v |-> [name |-> name, publisher |-> publisher, version |-> version,
            enabled |-> enabled]]

\* dict.get(k, default)
Get(d, k, default) == IF d[k] = Absent THEN default ELSE d[k]

\* bool(x)
Truthy(x) ==
    CASE x.t = "bool" -> x.v
      [] x.t = "num" -> x.v # 0
      [] x.t = "str" -> x.v # <<>>
      [] OTHER -> FALSE

NA == JStr(<<"N", "/", "A">>)

\* isinstance(value, dict)
IsDict(value) == value.t = "dict"

\* the record of one key/value pair
MakeRecord(key, value) ==
    [id |-> key,
     name |-> Get(value.v, "name", NA),
     publisher |-> Get(value.v, "publisher", NA),
     version |-> Get(value.v, "version", NA),
     enabled |-> Get(value.v, "enabled", JBool(TRUE))]

\* the loop without its isinstance test: a record for every pair
RECURSIVE BuildRecords_Unfiltered(_)
BuildRecords_Unfiltered(items) ==
    IF items = <<>> THEN <<>>
    ELSE <<MakeRecord(Head(items).key,
                      IF IsDict(Head(items).value) THEN Head(items).value
                      ELSE JDict(Absent, Absent, Absent, Absent))>>
         \o BuildRecords_Unfiltered(Tail(items))

\* the loop over data.items(): one record per pair whose value is a dict
RECURSIVE BuildRecords(_)
BuildRecords(items) ==
    IF items = <<>> THEN <<>>
    ELSE IF IsDict(Head(items).value)
         THEN <<MakeRecord(Head(items).key, Head(items).value)>>
              \o BuildRecords(Tail(items))
         ELSE BuildRecords(Tail(items))

\* a < b on two sort keys of one type
KeyLess(a, b) == IF a.t = "str" THEN StrLess(a.v, b.v) ELSE a.v < b.v

\* list.sort compares keys of two types somewhere: '<' raises TypeError
SortRaises(list) ==
    \E i, j \in 1..Len(list) : list[i].name.t # list[j].name.t

\* x put before the first element that is not smaller than it: not stable
RECURSIVE InsertByName_Unstable(_, _)
InsertByName_Unstable(sorted, x) ==
    IF sorted = <<>> THEN <<x>>
    ELSE IF ~KeyLess(Head(sorted).name, x.name) THEN <<x>> \o sorted
    ELSE <<Head(sorted)>> \o InsertByName_Unstable(Tail(sorted), x)

\* x put behind every element that is not greater than it
RECURSIVE InsertByName(_, _)
InsertByName(sorted, x) ==
    IF sorted = <<>> THEN <<x>>
    ELSE IF KeyLess(x.name, Head(sorted).name) THEN <<x>> \o sorted
    ELSE <<Head(sorted)>> \o InsertByName(Tail(sorted), x)

\* extensions.sort(key=lambda x: x["name"]): ascending and stable
RECURSIVE SortByName(_)
SortByName(list) ==
    IF list = <<>> THEN <<>>
    ELSE InsertByName(SortByName(SubSeq(list, 1, Len(list) - 1)),
                      list[Len(list)])

----------------------------------------------------------------------------
(* The listing document. *)

IdLimit == 50
IdKeep == 47
NameLimit == 35
NameKeep == 32

\* the cut taken one character early: >= for >
Truncate_AtLimit(s, limit, keep) ==
    IF Len(s) >= limit THEN SubSeq(s, 1, keep) \o Ellipsis ELSE s

\* s[:keep] + "..." if len(s) > limit else s
Truncate(s, limit, keep) ==
    IF Len(s) > limit THEN SubSeq(s, 1, keep) \o Ellipsis ELSE s

\* the table row of one record: the values the f-string lays out, before it
\* pads each to its column width
Row(idx, ext) ==
    [idx |-> idx,
     status |-> IF Truthy(ext.enabled) THEN "enabled" ELSE "disabled",
     ext_id |-> Truncate(ext.id, IdLimit, IdKeep),
     name |-> Truncate(ext.name.v, NameLimit, NameKeep),
     publisher |-> ext.publisher,
     version |-> ext.version]

\* len(ext["name"]) raises TypeError on the first record whose name is no str
RowsRaise(list) == \E i \in 1..Len(list) : list[i].name.t # "str"

Rows(list) == [i \in 1..Len(list) |-> Row(i, list[i])]

kwLanguage == <<"l","a","n","g","u","a","g","e">>
kwSyntax == <<"s","y","n","t","a","x">>
kwTheme == <<"t","h","e","m","e">>
kwGit == <<"g","i","t">>
kwDebug == <<"d","e","b","u","g">>
kwFormat == {<<"f","o","r","m","a","t","t","e","r">>,
             <<"l","i","n","t","e","r">>,
             <<"p","r","e","t","t","i","e","r">>,
             <<"e","s","l","i","n","t">>}

IsLanguage(e) ==
    \/ Contains(Lower(e.id), kwLanguage)
    \/ Contains(Lower(e.name.v), kwLanguage)
    \/ Contains(Lower(e.id), kwSyntax)

IsTheme(e) ==
    Contains(Lower(e.id), kwTheme) \/ Contains(Lower(e.name.v), kwTheme)

IsGit(e) == Contains(Lower(e.id), kwGit) \/ Contains(Lower(e.name.v), kwGit)

IsDebug(e) ==
    Contains(Lower(e.id), kwDebug) \/ Contains(Lower(e.name.v), kwDebug)

IsFormat(e) == \E x \in kwFormat : Contains(Lower(e.id), x)

language_exts(list) == SelectSeq(list, IsLanguage)
theme_exts(list) == SelectSeq(list, IsTheme)
git_exts(list) == SelectSeq(list, IsGit)
debug_exts(list) == SelectSeq(list, IsDebug)
format_exts(list) == SelectSeq(list, IsFormat)

\* the residual without the format category
other_count_NoFormat(list) ==
    Len(list) - Len(language_exts(list)) - Len(theme_exts(list))
    - Len(git_exts(list)) - Len(debug_exts(list))

other_count(list) ==
    Len(list) - Len(language_exts(list)) - Len(theme_exts(list))
    - Len(git_exts(list)) - Len(debug_exts(list)) - Len(format_exts(list))

\* the listing text: header total, table rows, category breakdown
ListingDoc(list) ==
    [total |-> Len(list),
     rows |-> Rows(list),
     language |-> Len(language_exts(list)),
     theme |-> Len(theme_exts(list)),
     git |-> Len(git_exts(list)),
     debug |-> Len(debug_exts(list)),
     format |-> Len(format_exts(list)),
     other |-> other_count(list)]

----------------------------------------------------------------------------
(* The analysis document. *)

ThemeLimit == 3
LanguageLimit == 10
FormatLimit == 5
GitLimit == 3

IsDisabled(e) == ~Truthy(e.enabled)

disabled_exts(list) == SelectSeq(list, IsDisabled)

\* the key without lower()
NameKey_Cased(e) == StripSpaces(e.name.v)

\* ext["name"].lower().replace(" ", "")
NameKey(e) == StripSpaces(Lower(e.name.v))

\* name_groups after one more record: the dict keeps its keys in the order
\* they were first inserted
AddToGroups(groups, ext) ==
    IF \E i \in 1..Len(groups) : groups[i].key = NameKey(ext)
    THEN [i \in 1..Len(groups) |->
            IF groups[i].key = NameKey(ext)
            THEN [groups[i] EXCEPT !.members = Append(@, ext)]
            ELSE groups[i]]
    ELSE Append(groups, [key |-> NameKey(ext), members |-> <<ext>>])

RECURSIVE name_groups(_)
name_groups(list) ==
    IF list = <<>> THEN <<>>
    ELSE AddToGroups(name_groups(SubSeq(list, 1, Len(list) - 1)),
                     list[Len(list)])

IsMultiple(g) == Len(g.members) > 1

\* [g for g in name_groups.values() if len(g) > 1]
duplicates(list) ==
    LET multi == SelectSeq(name_groups(list), IsMultiple)
    IN  [i \in 1..Len(multi) |-> multi[i].members]

\* the sum of len(group): every member counted, none kept
RECURSIVE ExtraCopies_Whole(_)
ExtraCopies_Whole(groups) ==
    IF groups = <<>> THEN 0
    ELSE (IF Len(Head(groups)) > 1 THEN Len(Head(groups)) ELSE 0)
         + ExtraCopies_Whole(Tail(groups))

\* the sum of len(group) - 1 over the groups with more than one member
RECURSIVE ExtraCopies(_)
ExtraCopies(groups) ==
    IF groups = <<>> THEN 0
    ELSE (IF Len(Head(groups)) > 1 THEN Len(Head(groups)) - 1 ELSE 0)
         + ExtraCopies(Tail(groups))

\* a tally that counts no record twice
recommended_removals_Once(list) ==
    Cardinality({ i \in 1..Len(list) :
                    \/ IsDisabled(list[i])
                    \/ \E j \in 1..(i - 1) : NameKey(list[j]) = NameKey(list[i]) })

recommended_removals(list) ==
    (IF disabled_exts(list) # <<>> THEN Len(disabled_exts(list)) ELSE 0)
    + ExtraCopies(duplicates(list))

\* the analysis text: the seven findings and the summary
AnalysisDoc(list) ==
    [disabled |-> disabled_exts(list),
     duplicates |-> duplicates(list),
     theme |-> Len(theme_exts(list)),
     theme_list |-> IF Len(theme_exts(list)) > ThemeLimit
                    THEN theme_exts(list) ELSE <<>>,
     language |-> Len(language_exts(list)),
     language_note |-> Len(language_exts(list)) > LanguageLimit,
     format |-> Len(format_exts(list)),
     format_list |-> IF Len(format_exts(list)) > FormatLimit
                     THEN format_exts(list) ELSE <<>>,
     git |-> Len(git_exts(list)),
     git_note |-> Len(git_exts(list)) > GitLimit,
     debug |-> Len(debug_exts(list)),
     removals |-> recommended_removals(list),
     advice |-> IF recommended_removals(list) > 0 THEN "remove" ELSE "keep",
     total |-> Len(list),
     kept |-> Len(list) - recommended_removals(list)]

----------------------------------------------------------------------------
(* The run. *)

extensions_json_path == "extensions.json"
output_path == "cursor-extensions-list.txt"
analysis_path == "extension-analysis.txt"
error_path == "extension-error.txt"

NoError == [type |-> "none", msg |-> <<>>]
NoDoc == [total |-> 0 - 1]
Untouched == [state |-> "untouched", text |-> NoDoc]
UntouchedLog == [state |-> "untouched", text |-> <<>>]
NoData == [kind |-> "unbound", items |-> <<>>]
NoFile == [kind |-> "absent", items |-> <<>>]

\* raise FileNotFoundError(f"...: {extensions_json_path}"); a message is the
\* sequence of its parts, the script's Korean wording given in English
FileNotFound ==
    [type |-> "FileNotFoundError",
     msg |-> <<"file not found: ", extensions_json_path>>]

\* the OSError of a failed open() or write(): str(e) names the file
OSErrorOn(path) == [type |-> "OSError", msg |-> <<"[Errno] ", path>>]

JSONDecodeError == [type |-> "JSONDecodeError", msg |-> <<"Expecting value">>]
AttributeError == [type |-> "AttributeError", msg |-> <<"no attribute 'items'">>]
TypeError == [type |-> "TypeError", msg |-> <<"unsupported operand type">>]

\* what an open() or a write() may do in this run
Outcomes == IF io_faults THEN BOOLEAN ELSE {TRUE}

\* control passes to the except clause with e bound
Raise(e) == raised' = e /\ pc' = "handler"

\* the existence check left out: the run goes on to open()
CheckExists_Skipped ==
    /\ pc = "check"
    /\ pc' = "open_input"
    /\ UNCHANGED <<exists, content, handles, opened, data, extensions,
                   output, analysis, listing_file, analysis_file, error_file,
                   raised, error_msg, error_writes, exit_code, io_faults>>

\* if not os.path.exists(...): raise FileNotFoundError
CheckExists ==
    /\ pc = "check"
    /\ IF exists
       THEN pc' = "open_input" /\ UNCHANGED raised
       ELSE Raise(FileNotFound)
    /\ UNCHANGED <<exists, content, handles, opened, data, extensions,
                   output, analysis, listing_file, analysis_file,
                   error_file, error_msg, error_writes, exit_code, io_faults>>

\* with open(extensions_json_path, "r") as f
OpenInput ==
    /\ pc = "open_input"
    /\ \E ok \in Outcomes :
         /\ opened' = Append(opened, extensions_json_path)
         /\ IF ok
            THEN /\ handles' = handles \cup {extensions_json_path}
                 /\ pc' = "parse"
                 /\ UNCHANGED raised
            ELSE /\ Raise(OSErrorOn(extensions_json_path))
                 /\ UNCHANGED handles
    /\ UNCHANGED <<exists, content, data, extensions, output, analysis,
                   listing_file, analysis_file, error_file, error_msg,
                   error_writes, exit_code, io_faults>>

\* data = json.load(f), and the with block closes f either way
ParseInput ==
    /\ pc = "parse"
    /\ handles' = handles \ {extensions_json_path}
    /\ IF content.kind = "malformed"
       THEN Raise(JSONDecodeError) /\ UNCHANGED data
       ELSE data' = content /\ pc' = "build" /\ UNCHANGED raised
    /\ UNCHANGED <<exists, content, opened, extensions, output, analysis,
                   listing_file, analysis_file, error_file, error_msg,
                   error_writes, exit_code, io_faults>>

\* extensions = [] and the loop over data.items()
Build ==
    /\ pc = "build"
    /\ IF data.kind # "object"
       THEN Raise(AttributeError) /\ UNCHANGED extensions
       ELSE /\ extensions' = BuildRecords(data.items)
            /\ pc' = "sort"
            /\ UNCHANGED raised
    /\ UNCHANGED <<exists, content, handles, opened, data, output, analysis,
                   listing_file, analysis_file, error_file, error_msg,
                   error_writes, exit_code, io_faults>>

\* extensions.sort(key=lambda x: x["name"])
Sort ==
    /\ pc = "sort"
    /\ IF SortRaises(extensions)
       THEN Raise(TypeError) /\ UNCHANGED extensions
       ELSE /\ extensions' = SortByName(extensions)
            /\ pc' = "render"
            /\ UNCHANGED raised
    /\ UNCHANGED <<exists, content, handles, opened, data, output, analysis,
                   listing_file, analysis_file, error_file, error_msg,
                   error_writes, exit_code, io_faults>>

\* output = header + table rows + category breakdown
Render ==
    /\ pc = "render"
    /\ IF RowsRaise(extensions)
       THEN Raise(TypeError) /\ UNCHANGED output
       ELSE /\ output' = ListingDoc(extensions)
            /\ pc' = "open_listing"
            /\ UNCHANGED raised
    /\ UNCHANGED <<exists, content, handles, opened, data, extensions,
                   analysis, listing_file, analysis_file, error_file,
                   error_msg, error_writes, exit_code, io_faults>>

\* with open(output_path, "w") as f: the file is truncated
OpenListing ==
    /\ pc = "open_listing"
    /\ \E ok \in Outcomes :
         /\ opened' = Append(opened, output_path)
         /\ IF ok
            THEN /\ handles' = handles \cup {output_path}
                 /\ listing_file' = [state |-> "truncated", text |-> NoDoc]
                 /\ pc' = "write_listing"
                 /\ UNCHANGED raised
            ELSE /\ Raise(OSErrorOn(output_path))
                 /\ UNCHANGED <<handles, listing_file>>
    /\ UNCHANGED <<exists, content, data, extensions, output, analysis,
                   analysis_file, error_file, error_msg, error_writes,
                   exit_code, io_faults>>

\* a failed f.write(output) passed over: the run goes on to the analysis
WriteListing_Swallowed ==
    /\ pc = "write_listing"
    /\ handles' = handles \ {output_path}
    /\ \E ok \in Outcomes :
         IF ok
         THEN listing_file' = [state |-> "written", text |-> output]
         ELSE UNCHANGED listing_file
    /\ pc' = "analyse"
    /\ UNCHANGED <<exists, content, opened, data, extensions, output,
                   analysis, analysis_file, error_file, raised, error_msg,
                   error_writes, exit_code, io_faults>>

\* f.write(output), and the with block closes f either way
WriteListing ==
    /\ pc = "write_listing"
    /\ handles' = handles \ {output_path}
    /\ \E ok \in Outcomes :
         IF ok
         THEN /\ listing_file' = [state |-> "written", text |-> output]
              /\ pc' = "analyse"
              /\ UNCHANGED raised
         ELSE /\ Raise(OSErrorOn(output_path))
              /\ UNCHANGED listing_file
    /\ UNCHANGED <<exists, content, opened, data, extensions, output,
                   analysis, analysis_file, error_file, error_msg,
                   error_writes, exit_code, io_faults>>

\* analysis = the seven findings + the summary
Analyse ==
    /\ pc = "analyse"
    /\ analysis' = AnalysisDoc(extensions)
    /\ pc' = "open_analysis"
    /\ UNCHANGED <<exists, content, handles, opened, data, extensions,
                   output, listing_file, analysis_file, error_file, raised,
                   error_msg, error_writes, exit_code, io_faults>>

\* with open(analysis_path, "w") as f: the file is truncated
OpenAnalysis ==
    /\ pc = "open_analysis"
    /\ \E ok \in Outcomes :
         /\ opened' = Append(opened, analysis_path)
         /\ IF ok
            THEN /\ handles' = handles \cup {analysis_path}
                 /\ analysis_file' = [state |-> "truncated", text |-> NoDoc]
                 /\ pc' = "write_analysis"
                 /\ UNCHANGED raised
            ELSE /\ Raise(OSErrorOn(analysis_path))
                 /\ UNCHANGED <<handles, analysis_file>>
    /\ UNCHANGED <<exists, content, data, extensions, output, analysis,
                   listing_file, error_file, error_msg, error_writes,
                   exit_code, io_faults>>

\* f.write(analysis), and the with block closes f either way
WriteAnalysis ==
    /\ pc = "write_analysis"
    /\ handles' = handles \ {analysis_path}
    /\ \E ok \in Outcomes :
         IF ok
         THEN /\ analysis_file' = [state |-> "written", text |-> analysis]
              /\ pc' = "finish"
              /\ UNCHANGED raised
         ELSE /\ Raise(OSErrorOn(analysis_path))
              /\ UNCHANGED analysis_file
    /\ UNCHANGED <<exists, content, opened, data, extensions, output,
                   analysis, listing_file, error_file, error_msg,
                   error_writes, exit_code, io_faults>>

\* the last prints, and the script runs off its end: exit code 0
Finish ==
    /\ pc = "finish"
    /\ exit_code' = <<0>>
    /\ pc' = "done"
    /\ UNCHANGED <<exists, content, handles, opened, data, extensions,
                   output, analysis, listing_file, analysis_file,
                   error_file, raised, error_msg, error_writes, io_faults>>

\* except Exception as e: error_msg = f"...: {e}\n" + traceback.format_exc()
Handler ==
    /\ pc = "handler"
    /\ error_msg' = <<"error: ">> \o raised.msg \o <<"\n", "traceback">>
    /\ pc' = "open_error"
    /\ UNCHANGED <<exists, content, handles, opened, data, extensions,
                   output, analysis, listing_file, analysis_file,
                   error_file, raised, error_writes, exit_code, io_faults>>

\* try: with open(error path, "w") as f -- except: pass
OpenError ==
    /\ pc = "open_error"
    /\ error_writes' = error_writes + 1
    /\ \E ok \in Outcomes :
         /\ opened' = Append(opened, error_path)
         /\ IF ok
            THEN /\ handles' = handles \cup {error_path}
                 /\ error_file' = [state |-> "truncated", text |-> <<>>]
                 /\ pc' = "write_error"
            ELSE /\ pc' = "exit"
                 /\ UNCHANGED <<handles, error_file>>
    /\ UNCHANGED <<exists, content, data, extensions, output, analysis,
                   listing_file, analysis_file, raised, error_msg,
                   exit_code, io_faults>>

\* f.write(error_msg), the with block closes f -- except: pass
WriteError ==
    /\ pc = "write_error"
    /\ handles' = handles \ {error_path}
    /\ \E ok \in Outcomes :
         IF ok
         THEN error_file' = [state |-> "written", text |-> error_msg]
         ELSE UNCHANGED error_file
    /\ pc' = "exit"
    /\ UNCHANGED <<exists, content, opened, data, extensions, output,
                   analysis, listing_file, analysis_file, raised, error_msg,
                   error_writes, exit_code, io_faults>>

\* exit(0)
Exit_Zero ==
    /\ pc = "exit"
    /\ exit_code' = <<0>>
    /\ pc' = "done"
    /\ UNCHANGED <<exists, content, handles, opened, data, extensions,
                   output, analysis, listing_file, analysis_file,
                   error_file, raised, error_msg, error_writes, io_faults>>

\* exit(1)
Exit ==
    /\ pc = "exit"
    /\ exit_code' = <<1>>
    /\ pc' = "done"
    /\ UNCHANGED <<exists, content, handles, opened, data, extensions,
                   output, analysis, listing_file, analysis_file,
                   error_file, raised, error_msg, error_writes, io_faults>>

Next ==
    \/ CheckExists
    \/ OpenInput
    \/ ParseInput
    \/ Build
    \/ Sort
    \/ Render
    \/ OpenListing
    \/ WriteListing
    \/ Analyse
    \/ OpenAnalysis
    \/ WriteAnalysis
    \/ Finish
    \/ Handler
    \/ OpenError
    \/ WriteError
    \/ Exit

----------------------------------------------------------------------------
(* The inputs and the specifications. *)

\* the sequences of at most n key/value pairs with distinct keys: a JSON
\* object as json.load returns it, in the order of the file
Mappings(Keys, Values, n) ==
    UNION {
      { [i \in 1..k |-> [key |-> ks[i], value |-> vs[i]]] :
          ks \in {f \in [1..k -> Keys] :
                    \A i, j \in 1..k : f[i] = f[j] => i = j},
          vs \in [1..k -> Values] } : k \in 0..n }

Objects(Keys, Values, n) ==
    { [kind |-> "object", items |-> m] : m \in Mappings(Keys, Values, n) }

InitWith(Contents, faults) ==
    /\ pc = "check"
    /\ exists \in BOOLEAN
    /\ content \in (IF exists THEN Contents ELSE {NoFile})
    /\ io_faults = faults
    /\ handles = {}
    /\ opened = <<>>
    /\ data = NoData
    /\ extensions = <<>>
    /\ output = NoDoc
    /\ analysis = NoDoc
    /\ listing_file = Untouched
    /\ analysis_file = Untouched
    /\ error_file = UntouchedLog
    /\ raised = NoError
    /\ error_msg = <<>>
    /\ error_writes = 0
    /\ exit_code = <<>>

sAlphaTheme == <<"A","l","p","h","a"," ","T","h","e","m","e">>
sFooBar == <<"F","o","o"," ","B","a","r">>
sfoobar == <<"f","o","o","b","a","r">>
sZed == <<"Z","e","d">>
sBaz == <<"B","a","z">>
sGitLens == <<"G","i","t","L","e","n","s">>
sPub == <<"p","u","b">>
sV1 == <<"1",".","0">>

idExt1 == <<"p","u","b",".","e","x","t","1">>
idExt2 == <<"p","u","b",".","e","x","t","2">>
idExt3 == <<"p","u","b",".","e","x","t","3">>
idExt4 == <<"p","u","b",".","e","x","t","4">>

PlainKeys == {idExt1, idExt2, idExt3, idExt4}

\* any run: missing, unreadable, malformed and ill-typed inputs, failing
\* output files
AnyValues ==
    { JDict(JStr(sAlphaTheme), JStr(sPub), JStr(sV1), JBool(FALSE)),
      JDict(Absent, Absent, Absent, Absent),
      JDict(JNum(7), JStr(sPub), JStr(sV1), JBool(TRUE)),
      JStr(sV1) }

AnyContents ==
    Objects(PlainKeys, AnyValues, MaxEntries)
    \cup {[kind |-> "malformed", items |-> <<>>],
          [kind |-> "array", items |-> <<>>]}

Init == InitWith(AnyContents, TRUE)

Spec == Init /\ [][Next]_vars

\* well-formed inputs whose names collide after normalisation, enabled or
\* not, on a filesystem that does not fail
NamedValues ==
    { JDict(JStr(sFooBar), JStr(sPub), JStr(sV1), JBool(TRUE)),
      JDict(JStr(sfoobar), JStr(sPub), JStr(sV1), JBool(TRUE)),
      JDict(JStr(sfoobar), JStr(sPub), JStr(sV1), JBool(FALSE)),
      JDict(JStr(sZed), JStr(sPub), JStr(sV1), JBool(FALSE)) }

InitNames == InitWith(Objects(PlainKeys, NamedValues, MaxEntries), FALSE)

SpecNames == InitNames /\ [][Next]_vars

\* well-formed inputs whose ids and names carry the category keywords
idGit == <<"x",".","g","i","t">>
idAll == <<"T","h","e","m","e","-","D","e","b","u","g","-","G","i","t","-",
           "S","y","n","t","a","x","-","E","S","L","i","n","t">>
idPrettier == <<"e",".","p","r","e","t","t","i","e","r">>
sLanguage == <<"D","e","b","u","g"," ","L","a","n","g","u","a","g","e">>

CategoryKeys == {idExt1, idGit, idAll, idPrettier}

CategoryValues ==
    { JDict(JStr(sAlphaTheme), JStr(sPub), JStr(sV1), JBool(FALSE)),
      JDict(JStr(sGitLens), JStr(sPub), JStr(sV1), JBool(TRUE)),
      JDict(JStr(sLanguage), JStr(sPub), JStr(sV1), JBool(TRUE)),
      JDict(Absent, Absent, Absent, Absent) }

InitCategories ==
    InitWith(Objects(CategoryKeys, CategoryValues, MaxEntries), FALSE)

SpecCategories == InitCategories /\ [][Next]_vars

\* one record whose id or name is a run of filler characters, with or
\* without a trailing "...", up to and beyond both truncation limits
Padded ==
    { Rep("a", n) \o tail : n \in 0..MaxPad, tail \in {<<>>, Ellipsis} }

LongValues ==
    { JDict(JStr(s), JStr(sPub), JStr(sV1), JBool(TRUE)) : s \in Padded }

LongContents ==
    { [kind |-> "object", items |-> <<[key |-> k, value |-> v]>>] :
        k \in Padded, v \in {JDict(JStr(sBaz), Absent, Absent, Absent)} }
    \cup
    { [kind |-> "object", items |-> <<[key |-> idExt1, value |-> v]>>] :
        v \in LongValues }

InitLong == InitWith(LongContents, FALSE)

SpecLong == InitLong /\ [][Next]_vars

----------------------------------------------------------------------------
(* What the properties below speak about. *)

\* the sort step has run and did not raise
Sorted == pc = "render" \/ output # NoDoc

\* the positions of the record list
Positions == 1..Len(extensions)

\* where the record with this id stands in the input mapping
InputIndex(id) == CHOOSE k \in 1..Len(data.items) : data.items[k].key = id

\* where a record stands in the record list
ListIndex(r) == CHOOSE i \in Positions : extensions[i] = r

NotSpace(c) == c # " "

\* a name lowercased and without its spaces
NormalizedName(s) == Lower(SelectSeq(s, NotSpace))

SameNormalizedName(i, j) ==
    NormalizedName(extensions[i].name.v) = NormalizedName(extensions[j].name.v)

\* the records whose normalised name another record shares
InDuplicateGroup == { i \in Positions :
                        \E j \in Positions : j # i /\ SameNormalizedName(i, j) }

\* the normalised names that more than one record has
DuplicateNames == { NormalizedName(extensions[i].name.v) : i \in InDuplicateGroup }

DisabledPositions == { i \in Positions : extensions[i].enabled = JBool(FALSE) }

\* a list's elements from position 1 on, as a set
Range(seq) == { seq[i] : i \in 1..Len(seq) }

----------------------------------------------------------------------------
(* C1: the reported removal tally is the number of disabled records plus,  *)
(* for every duplicate-name group, its size minus one, and the reported    *)
(* kept count is the total minus the tally; a disabled record of a         *)
(* duplicate group counts in both terms.                                   *)
C1_TallyIsDisabledPlusExtras ==
    analysis # NoDoc =>
      /\ analysis.total = Len(extensions)
      /\ analysis.removals =
           Cardinality(DisabledPositions)
           + (Cardinality(InDuplicateGroup) - Cardinality(DuplicateNames))
      /\ analysis.kept = analysis.total - analysis.removals

\* two records of one name, one of them disabled: tally 2, kept 0
C1_Witness ==
    /\ analysis # NoDoc
    /\ Len(extensions) = 2
    /\ SameNormalizedName(1, 2)
    /\ Cardinality(DisabledPositions) = 1
    /\ analysis.removals = 2
    /\ analysis.kept = 0

(* C2: a record is built for a key/value pair exactly if the value is an   *)
(* object, one record per such pair with the key as its id, and the        *)
(* listing has one row per record, numbered 1..n, its total being n.       *)
C2_OneRowPerObjectEntry ==
    /\ (data.kind = "object" /\ pc # "build") =>
         \A k \in 1..Len(data.items) :
           Cardinality({ i \in Positions : extensions[i].id = data.items[k].key })
             = (IF data.items[k].value.t = "dict" THEN 1 ELSE 0)
    /\ (data.kind = "object" /\ pc # "build") =>
         Len(extensions) =
           Cardinality({ k \in 1..Len(data.items) : data.items[k].value.t = "dict" })
    /\ output # NoDoc =>
         /\ Len(output.rows) = Len(extensions)
         /\ output.total = Len(extensions)
         /\ \A i \in 1..Len(output.rows) : output.rows[i].idx = i

\* a listing of an input that holds both object and non-object values
C2_Witness ==
    /\ output # NoDoc
    /\ Len(output.rows) >= 1
    /\ Len(output.rows) < Len(data.items)
    /\ listing_file.state = "written"

(* C3: after the sort the record list is a permutation of the constructed  *)
(* records, non-decreasing by name, records of equal names standing in the *)
(* order of their keys in the input; the listing rows follow that order.   *)
C3_SortedStablePermutation ==
    Sorted =>
      /\ Len(extensions) = Len(BuildRecords(data.items))
      /\ Range(extensions) = Range(BuildRecords(data.items))
      /\ \A i, j \in Positions :
           i < j => ~StrLess(extensions[j].name.v, extensions[i].name.v)
      /\ \A i, j \in Positions :
           (i < j /\ extensions[i].name = extensions[j].name)
             => InputIndex(extensions[i].id) < InputIndex(extensions[j].id)
      /\ output # NoDoc =>
           \A i \in Positions :
             /\ output.rows[i].ext_id = extensions[i].id
             /\ output.rows[i].name = extensions[i].name.v

\* three records written in descending name order, two of them of one name
C3_Witness ==
    /\ output # NoDoc
    /\ Len(extensions) = 3
    /\ extensions[1].name = extensions[2].name
    /\ InputIndex(extensions[3].id) = 1
    /\ InputIndex(extensions[1].id) = 2
    /\ InputIndex(extensions[2].id) = 3

\* the rule of C4 for one cell: s the original, r what the row shows
CutAt(s, r, limit, keep) ==
    /\ Len(r) <= limit
    /\ Len(s) > limit => r = SubSeq(s, 1, keep) \o Ellipsis
    /\ Len(s) <= limit => r = s

(* C4, as the specification states it: a rendered id is at most 50 long    *)
(* and ends in "..." exactly if the original id is longer than 50 (then it *)
(* is its first 47 characters and "..."), an id of at most 50 is rendered  *)
(* unchanged; the same for the name with 35 and 32.                        *)
C4_EllipsisIffTooLong ==
    output # NoDoc =>
      \A i \in Positions :
        /\ CutAt(extensions[i].id, output.rows[i].ext_id, 50, 47)
        /\ EndsWith(output.rows[i].ext_id, Ellipsis) <=> Len(extensions[i].id) > 50
        /\ CutAt(extensions[i].name.v, output.rows[i].name, 35, 32)
        /\ EndsWith(output.rows[i].name, Ellipsis) <=> Len(extensions[i].name.v) > 35

(* C4, amended: a rendered id is at most 50 long; an id longer than 50 is  *)
(* rendered as its first 47 characters and "...", an id of at most 50      *)
(* unchanged, so that the rendered id ends in "..." exactly if the         *)
(* original is longer than 50 or itself ends in "..."; the same for the    *)
(* name with 35 and 32.                                                    *)
C4_CutOrUnchanged ==
    output # NoDoc =>
      \A i \in Positions :
        /\ CutAt(extensions[i].id, output.rows[i].ext_id, 50, 47)
        /\ EndsWith(output.rows[i].ext_id, Ellipsis)
             <=> (Len(extensions[i].id) > 50
                  \/ EndsWith(extensions[i].id, Ellipsis))
        /\ CutAt(extensions[i].name.v, output.rows[i].name, 35, 32)
        /\ EndsWith(output.rows[i].name, Ellipsis)
             <=> (Len(extensions[i].name.v) > 35
                  \/ EndsWith(extensions[i].name.v, Ellipsis))

\* an id of exactly 50 characters that ends in "..." and is listed as it is
C4_Witness ==
    /\ output # NoDoc
    /\ Len(extensions) = 1
    /\ Len(extensions[1].id) = 50
    /\ EndsWith(extensions[1].id, Ellipsis)
    /\ output.rows[1].ext_id = extensions[1].id
    /\ listing_file.state = "written"

(* C5: grouping partitions the sorted record list by the normalised name:  *)
(* every record is in exactly one group, two records share a group exactly *)
(* if their normalised names are equal, the duplicate candidates are       *)
(* exactly the groups of more than one member, groups stand in the order   *)
(* of their first members in the list and members in the order of the list.*)
C5_GroupsPartitionByNormalizedName ==
    analysis # NoDoc =>
      LET groups == name_groups(extensions)
          Groups == 1..Len(groups)
          at == [r \in Range(extensions) |-> ListIndex(r)]
          groupOf == [i \in Positions |->
                        CHOOSE k \in Groups :
                          extensions[i] \in Range(groups[k].members)]
          norm == [i \in Positions |-> NormalizedName(extensions[i].name.v)]
      IN
      /\ \A i \in Positions :
           Cardinality({ k \in Groups :
                           extensions[i] \in Range(groups[k].members) }) = 1
      /\ \A k \in Groups :
           /\ groups[k].members # <<>>
           /\ Range(groups[k].members) \subseteq Range(extensions)
           /\ \A m, n \in 1..Len(groups[k].members) :
                m < n => at[groups[k].members[m]] < at[groups[k].members[n]]
      /\ \A i, j \in Positions : groupOf[i] = groupOf[j] <=> norm[i] = norm[j]
      /\ \A k, l \in Groups :
           k < l => at[groups[k].members[1]] < at[groups[l].members[1]]
      /\ Range(analysis.duplicates) =
           { groups[k].members :
               k \in { n \in Groups : Len(groups[n].members) > 1 } }
      /\ \A d, e \in 1..Len(analysis.duplicates) :
           d < e => at[analysis.duplicates[d][1]] < at[analysis.duplicates[e][1]]
      /\ Len(analysis.duplicates) = Cardinality({ norm[i] : i \in InDuplicateGroup })

\* "Foo Bar", "Zed", "foobar": one group of two around a record that is alone
C5_Witness ==
    /\ analysis # NoDoc
    /\ Len(extensions) = 3
    /\ extensions[1].name.v = sFooBar
    /\ extensions[2].name.v = sZed
    /\ extensions[3].name.v = sfoobar
    /\ Len(analysis.duplicates) = 1
    /\ analysis.duplicates[1] = <<extensions[1], extensions[3]>>

(* C6: each of the five category counts is between 0 and the total, the    *)
(* residual is the total minus their sum, and it is never below -4 times   *)
(* the total (it is negative where records are in several categories).     *)
C6_CategoryCountsAndResidual ==
    output # NoDoc =>
      /\ \A c \in {output.language, output.theme, output.git, output.debug,
                   output.format} : c \in 0..output.total
      /\ output.total = Len(extensions)
      /\ output.other = output.total - (output.language + output.theme
                          + output.git + output.debug + output.format)
      /\ output.other >= 0 - 4 * output.total

\* records in several categories: the residual is negative
C6_Witness ==
    /\ output # NoDoc
    /\ output.total = 2
    /\ output.other < 0
    /\ output.theme = 2
    /\ output.git = 1
    /\ \E i \in Positions : IsTheme(extensions[i]) /\ IsGit(extensions[i])

\* the run of a missing input has ended: what holds of it whatever happens
\* to the error file
MissingInputRun ==
    /\ raised = FileNotFound
    /\ extensions_json_path \notin Range(opened)
    /\ data = NoData
    /\ listing_file = Untouched
    /\ analysis_file = Untouched
    /\ extensions_json_path \in Range(error_msg)
    /\ exit_code = <<1>>

(* C7, as the specification states it: when the input path does not exist  *)
(* the missing-file error is raised before any open or parse of the input, *)
(* neither document is written, the error file is written with a message   *)
(* that contains the attempted path, and the exit code is 1.               *)
C7_MissingInputWritesErrorFile ==
    (~exists /\ pc = "done") =>
      /\ MissingInputRun
      /\ error_file.state = "written"
      /\ extensions_json_path \in Range(error_file.text)

(* C7, amended: when the input path does not exist the missing-file error  *)
(* is raised before any open or parse of the input, neither document is    *)
(* written, the error-file write is attempted once with a message that     *)
(* contains the attempted path, the error file holds that message if the   *)
(* write succeeds and no message if it fails, and the exit code is 1.      *)
C7_MissingInputAttemptsErrorFile ==
    /\ (~exists /\ pc # "check") =>
         raised = FileNotFound /\ extensions_json_path \notin Range(opened)
    /\ (~exists /\ pc = "done") =>
         /\ MissingInputRun
         /\ error_writes = 1
         /\ Range(opened) = {error_path}
         /\ error_file.state = "written" => error_file.text = error_msg
         /\ error_file.state # "written" => error_file.text = <<>>

\* a missing input whose error file was written
C7_Witness ==
    /\ ~exists
    /\ pc = "done"
    /\ error_file.state = "written"
    /\ extensions_json_path \in Range(error_file.text)
    /\ exit_code = <<1>>

InHandler == pc \in {"handler", "open_error", "write_error", "exit", "done"}

(* C8: a failure in any phase is not recovered locally: control is in the  *)
(* top-level handler from then on, which attempts the error-file write     *)
(* once and ends with exit code 1 whether or not that write succeeds; the  *)
(* error file is touched only after an exception was caught, and never in  *)
(* a run that ends with exit code 0.                                       *)
C8_FailuresEndInHandler ==
    /\ raised # NoError <=> (InHandler /\ exit_code # <<0>>)
    /\ error_writes = (IF pc \in {"write_error", "exit"} \/ exit_code = <<1>>
                       THEN 1 ELSE 0)
    /\ Cardinality({ i \in 1..Len(opened) : opened[i] = error_path })
         = error_writes
    /\ pc = "done" => exit_code = (IF raised # NoError THEN <<1>> ELSE <<0>>)
    /\ pc # "done" => exit_code = <<>>
    /\ error_file # UntouchedLog => raised # NoError /\ error_writes = 1
    /\ exit_code = <<0>> => error_file = UntouchedLog /\ error_writes = 0

\* the sort raised, the error file could not be opened: exit code 1
C8_Witness ==
    /\ pc = "done"
    /\ raised = TypeError
    /\ output = NoDoc
    /\ error_writes = 1
    /\ error_file = UntouchedLog
    /\ exit_code = <<1>>

IsPrefix(s, t) == Len(s) <= Len(t) /\ s = SubSeq(t, 1, Len(s))

\* the opens of the run without the handler's
MainOpens == SelectSeq(opened, LAMBDA f : f # error_path)

(* C9: the steps come in the order read input, build records, write        *)
(* listing, write analysis, exit, each file closed before the next step,   *)
(* at most one open at any time; the analysis file is touched only after   *)
(* the listing file is completely written, and a run that ends with exit   *)
(* code 0 has written both documents.                                      *)
C9_StrictSequence ==
    /\ Cardinality(handles) <= 1
    /\ handles = (CASE pc = "parse" -> {extensions_json_path}
                    [] pc = "write_listing" -> {output_path}
                    [] pc = "write_analysis" -> {analysis_path}
                    [] pc = "write_error" -> {error_path}
                    [] OTHER -> {})
    /\ IsPrefix(MainOpens, <<extensions_json_path, output_path, analysis_path>>)
    /\ extensions # <<>> => data.kind = "object"
    /\ output # NoDoc => Sorted /\ data.kind = "object"
    /\ listing_file # Untouched => output # NoDoc
    /\ listing_file.state = "written" => listing_file.text = output
    /\ analysis # NoDoc => listing_file.state = "written"
    /\ analysis_file # Untouched =>
         analysis # NoDoc /\ listing_file.state = "written"
    /\ analysis_file.state = "written" => analysis_file.text = analysis
    /\ exit_code = <<0>> =>
         listing_file.state = "written" /\ analysis_file.state = "written"

\* the listing is written, the analysis write failed: exit code 1
C9_Witness ==
    /\ pc = "done"
    /\ listing_file.state = "written"
    /\ analysis_file.state = "truncated"
    /\ opened = <<extensions_json_path, output_path, analysis_path, error_path>>
    /\ exit_code = <<1>>

(* C10: where no disabled record is in a duplicate-name group the tally is *)
(* between 0 and the total, so the kept count is between 0 and the total   *)
(* and at least the number of duplicate groups; in any case the tally of a *)
(* non-empty list is at most 2 * total - 1 and the kept count at least     *)
(* 1 - total.                                                              *)
C10_TallyBounds ==
    analysis # NoDoc =>
      /\ (DisabledPositions \cap InDuplicateGroup = {}) =>
           /\ analysis.removals \in 0..analysis.total
           /\ analysis.kept \in 0..analysis.total
           /\ analysis.kept >= Len(analysis.duplicates)
      /\ analysis.total = Len(extensions)
      /\ analysis.total >= 1 =>
           /\ analysis.removals <= 2 * analysis.total - 1
           /\ analysis.kept >= 1 - analysis.total

\* a duplicate group of enabled records and a disabled record that is alone
C10_Witness ==
    /\ analysis # NoDoc
    /\ analysis.total = 3
    /\ DisabledPositions \cap InDuplicateGroup = {}
    /\ Cardinality(DisabledPositions) = 1
    /\ Len(analysis.duplicates) = 1
    /\ analysis.removals = 2
    /\ analysis.kept = 1

====
